---- MODULE Spec2Model ----
(***************************************************************************)
(* Pipe Trades CLI (src/main.c): one process invocation as a state         *)
(* machine.  argv is fixed at process start; the program counter walks     *)
(* main, the selected command function, its parse_double calls, its        *)
(* validations and its printf block, and ends in exit or return.           *)
(*                                                                         *)
(* Numbers.  A C double is modelled as a record [k, n, d, p]:              *)
(*   k = "fin" : the exact value (n/d) * pi^p, n/d in lowest terms, d > 0  *)
(*   k = "inf" : +infinity (n = 1) or -infinity (n = -1)                   *)
(*   k = "nan" : NaN                                                       *)
(* Finite arithmetic is exact (no rounding); the IEEE-754 rules for        *)
(* infinities and NaN are kept, since strtod accepts "inf" and "nan".      *)
(* The sign of zero is not tracked.                                        *)
(***************************************************************************)
EXTENDS Integers, Sequences, FiniteSets, TLC

VARIABLES argv, pc, vals, out, err, status

vars == <<argv, pc, vals, out, err, status>>

---------------------------------------------------------------------------
(* Exact arithmetic on the double model                                    *)

Abs(i) == IF i < 0 THEN -i ELSE i

Sgn(i) == IF i < 0 THEN -1 ELSE IF i = 0 THEN 0 ELSE 1

RECURSIVE Gcd(_, _)
Gcd(a, b) == IF b = 0 THEN a ELSE Gcd(b, a % b)

NaN == [k |-> "nan", n |-> 0, d |-> 1, p |-> 0]

Inf(s) == [k |-> "inf", n |-> s, d |-> 1, p |-> 0]

\* n/d * pi^p in lowest terms, d > 0; zero carries no power of pi
Fin(n, d, p) ==
    LET g == Gcd(Abs(n), Abs(d))
        s == Sgn(d)
    IN  IF n = 0 THEN [k |-> "fin", n |-> 0, d |-> 1, p |-> 0]
        ELSE [k |-> "fin", n |-> s * (n \div g), d |-> s * (d \div g), p |-> p]

Num(i) == Fin(i, 1, 0)

Rat(n, d) == Fin(n, d, 0)

IsNaN(a) == a.k = "nan"

IsInf(a) == a.k = "inf"

IsFin(a) == a.k = "fin"

IsZero(a) == a.k = "fin" /\ a.n = 0

\* sign of a non-NaN value: -1, 0, 1
SignOf(a) == Sgn(a.n)

Neg(a) == IF IsFin(a) THEN [a EXCEPT !.n = -a.n]
          ELSE IF IsInf(a) THEN Inf(-a.n) ELSE NaN

\* a + b; finite operands carry the same power of pi wherever the program adds
Add(a, b) ==
    IF IsNaN(a) \/ IsNaN(b) THEN NaN
    ELSE IF IsInf(a) /\ IsInf(b) THEN (IF a.n = b.n THEN a ELSE NaN)
    ELSE IF IsInf(a) THEN a
    ELSE IF IsInf(b) THEN b
    ELSE IF IsZero(a) THEN b
    ELSE IF IsZero(b) THEN a
    ELSE Fin(a.n * b.d + b.n * a.d, a.d * b.d, a.p)

Sub(a, b) == Add(a, Neg(b))

Mul(a, b) ==
    IF IsNaN(a) \/ IsNaN(b) THEN NaN
    ELSE IF IsInf(a) \/ IsInf(b)
         THEN (IF IsZero(a) \/ IsZero(b) THEN NaN ELSE Inf(SignOf(a) * SignOf(b)))
    ELSE Fin(a.n * b.n, a.d * b.d, a.p + b.p)

Div(a, b) ==
    IF IsNaN(a) \/ IsNaN(b) THEN NaN
    ELSE IF IsInf(a) THEN (IF IsInf(b) THEN NaN
                           ELSE IF IsZero(b) THEN a ELSE Inf(a.n * SignOf(b)))
    ELSE IF IsInf(b) THEN Num(0)
    ELSE IF IsZero(b) THEN (IF IsZero(a) THEN NaN ELSE Inf(SignOf(a)))
    ELSE Fin(a.n * b.d, a.d * b.n, a.p - b.p)

\* n1/d1 < n2/d2 for d1, d2 > 0, by integer parts and then the reciprocals
\* of the fractional parts, so that no product is formed
RECURSIVE RatLt(_, _, _, _)
RatLt(n1, d1, n2, d2) ==
    LET q1 == n1 \div d1
        q2 == n2 \div d2
        r1 == n1 % d1
        r2 == n2 % d2
    IN  IF q1 # q2 THEN q1 < q2
        ELSE IF r2 = 0 THEN FALSE
        ELSE IF r1 = 0 THEN TRUE
        ELSE RatLt(d2, r2, d1, r1)

\* a < b and a <= b as C evaluates them: false whenever an operand is NaN.
\* Finite operands are compared as rationals (the program compares no
\* multiple of pi).
Lt(a, b) ==
    IF IsNaN(a) \/ IsNaN(b) THEN FALSE
    ELSE IF IsInf(a) THEN a.n = -1 /\ ~(IsInf(b) /\ b.n = -1)
    ELSE IF IsInf(b) THEN b.n = 1
    ELSE RatLt(a.n, a.d, b.n, b.d)

Le(a, b) ==
    IF IsNaN(a) \/ IsNaN(b) THEN FALSE
    ELSE Lt(a, b) \/ a = b

Fabs(a) == IF IsNaN(a) THEN NaN
           ELSE IF IsInf(a) THEN Inf(1)
           ELSE [a EXCEPT !.n = Abs(a.n)]

\* largest k in lo..hi with (2k-1)^2 * d <= 40000 * n, i.e. k - 1/2 <= 100*sqrt(n/d)
RECURSIVE SqrtSearch(_, _, _, _)
SqrtSearch(n, d, lo, hi) ==
    IF lo = hi THEN lo
    ELSE LET mid == (lo + hi + 1) \div 2
         IN  IF (2 * mid - 1) * (2 * mid - 1) * d <= 40000 * n
             THEN SqrtSearch(n, d, mid, hi)
             ELSE SqrtSearch(n, d, lo, mid - 1)

\* an upper bound of 100*sqrt(n/d) for the search
SqrtHi(n, d) == 100 * ((n \div d) + 1)

\* sqrt(a): NaN for a negative or NaN operand, +inf for +inf; a finite
\* non-negative rational gives the square root rounded to the nearest 1/100
\* (the two decimals printf("%.2f") shows), exact for k^2/100^2
Sqrt(a) ==
    IF IsNaN(a) THEN NaN
    ELSE IF IsInf(a) THEN (IF a.n = 1 THEN a ELSE NaN)
    ELSE IF a.n < 0 THEN NaN
    ELSE Rat(SqrtSearch(a.n, a.d, 0, SqrtHi(a.n, a.d)), 100)

\* hypot(x, y): +inf when either operand is infinite (even beside a NaN)
Hypot(x, y) ==
    IF IsInf(x) \/ IsInf(y) THEN Inf(1)
    ELSE IF IsNaN(x) \/ IsNaN(y) THEN NaN
    ELSE Sqrt(Add(Mul(x, x), Mul(y, y)))

---------------------------------------------------------------------------
(* Tokens are sequences of one-character strings; position Len(s)+1 stands *)
(* for the terminating NUL.                                                *)

At(s, i) == IF i >= 1 /\ i <= Len(s) THEN s[i] ELSE "NUL"

\* isspace in the "C" locale (the program never calls setlocale); tokens
\* are ASCII and hold no vertical tab
IsSpace(c) == c \in {" ", "\t", "\n", "\r", "\f"}

DigitChars == <<"0", "1", "2", "3", "4", "5", "6", "7", "8", "9">>

IsDigit(c) == \E i \in 1..10 : DigitChars[i] = c

DigitVal(c) == (CHOOSE i \in 1..10 : DigitChars[i] = c) - 1

\* while (isspace(s[i])) i++
RECURSIVE SkipSpace(_, _)
SkipSpace(s, i) == IF IsSpace(At(s, i)) THEN SkipSpace(s, i + 1) ELSE i

\* first position at or after i that holds no decimal digit
RECURSIVE ScanDigits(_, _)
ScanDigits(s, i) == IF IsDigit(At(s, i)) THEN ScanDigits(s, i + 1) ELSE i

\* the decimal digits s[i..j-1] as a natural number
RECURSIVE DigitsVal(_, _, _)
DigitsVal(s, i, j) ==
    IF i >= j THEN 0 ELSE DigitsVal(s, i, j - 1) * 10 + DigitVal(s[j - 1])

Lower(c) ==
    CASE c = "I" -> "i" [] c = "N" -> "n" [] c = "F" -> "f" [] c = "A" -> "a"
      [] c = "T" -> "t" [] c = "Y" -> "y" [] c = "E" -> "e" [] OTHER -> c

\* s[i..] starts with the word w, letters compared without case
Matches(s, i, w) == \A j \in 1..Len(w) : Lower(At(s, i + j - 1)) = w[j]

\* a * 10^e, one factor of ten at a time so the fraction stays reduced
RECURSIVE Scale10(_, _)
Scale10(a, e) ==
    IF e = 0 \/ a.n = 0 THEN a
    ELSE IF e > 0 THEN Scale10(Rat(a.n * 10, a.d), e - 1)
    ELSE Scale10(Rat(a.n, a.d * 10), e + 1)

\* number of decimal digits of the natural number m
RECURSIVE NumDigits(_)
NumDigits(m) == IF m < 10 THEN 1 ELSE 1 + NumDigits(m \div 10)

\* strtod(str, &endptr) in the "C" locale on decimal, "inf"/"infinity" and
\* "nan" forms (hexadecimal floats and "nan(...)" do not occur among the
\* tokens drawn).  value: the converted number; endptr: the position of the
\* first character not consumed (1, the start of str, when no conversion is
\* performed); erange: errno is set to ERANGE.  A non-zero result whose
\* leading digit weighs more than 10^308 overflows to HUGE_VAL, one below
\* 10^-324 underflows to zero.
Strtod(str) ==
    LET i0 == SkipSpace(str, 1)
        sg == IF At(str, i0) = "-" THEN -1 ELSE 1
        i1 == IF At(str, i0) \in {"+", "-"} THEN i0 + 1 ELSE i0
        iE == ScanDigits(str, i1)
        hasDot == At(str, iE) = "."
        fE == IF hasDot THEN ScanDigits(str, iE + 1) ELSE iE
        nInt == iE - i1
        nFrac == IF hasDot THEN fE - (iE + 1) ELSE 0
        hasExpChar == Lower(At(str, fE)) = "e"
        xs == IF At(str, fE + 1) \in {"+", "-"} THEN fE + 2 ELSE fE + 1
        xE == ScanDigits(str, xs)
        hasExp == hasExpChar /\ xE > xs
        expo == IF hasExp
                THEN (IF At(str, fE + 1) = "-" THEN -1 ELSE 1) * DigitsVal(str, xs, xE)
                ELSE 0
        mant == DigitsVal(str, i1, iE) * (IF nFrac = 0 THEN 1 ELSE Scale10(Num(1), nFrac).n)
                + (IF nFrac = 0 THEN 0 ELSE DigitsVal(str, iE + 1, fE))
        weight == NumDigits(mant) - 1 + expo - nFrac
        endp == IF hasExp THEN xE ELSE fE
    IN  IF Matches(str, i1, <<"i", "n", "f">>)
        THEN [value |-> Inf(sg),
              endptr |-> IF Matches(str, i1, <<"i", "n", "f", "i", "n", "i", "t", "y">>)
                         THEN i1 + 8 ELSE i1 + 3,
              erange |-> FALSE]
        ELSE IF Matches(str, i1, <<"n", "a", "n">>)
        THEN [value |-> NaN, endptr |-> i1 + 3, erange |-> FALSE]
        ELSE IF nInt + nFrac = 0
        THEN [value |-> Num(0), endptr |-> 1, erange |-> FALSE]
        ELSE IF mant = 0
        THEN [value |-> Num(0), endptr |-> endp, erange |-> FALSE]
        ELSE IF weight > 308
        THEN [value |-> Inf(sg), endptr |-> endp, erange |-> TRUE]
        ELSE IF weight < -324
        THEN [value |-> Num(0), endptr |-> endp, erange |-> TRUE]
        ELSE [value |-> Scale10(Num(sg * mant), expo - nFrac),
              endptr |-> endp, erange |-> FALSE]

\* ParseDouble without the check that the whole string was consumed
ParseDouble_NoTrailingCheck(str) ==
    LET ptr == SkipSpace(str, 1)
        r == Strtod(str)
    IN  IF At(str, ptr) = "NUL" THEN [ok |-> FALSE, value |-> NaN]
        ELSE IF r.erange THEN [ok |-> FALSE, value |-> NaN]
        ELSE [ok |-> TRUE, value |-> r.value]

\* parse_double(str, param_name): ok = FALSE stands for the three
\* fprintf/exit(1) paths, otherwise value is what the function returns
ParseDouble(str) ==
    LET ptr == SkipSpace(str, 1)
        r == Strtod(str)
        endptr == SkipSpace(str, r.endptr)
    IN  IF At(str, ptr) = "NUL" THEN [ok |-> FALSE, value |-> NaN]
        ELSE IF r.erange THEN [ok |-> FALSE, value |-> NaN]
        ELSE IF At(str, endptr) # "NUL" THEN [ok |-> FALSE, value |-> NaN]
        ELSE [ok |-> TRUE, value |-> r.value]

---------------------------------------------------------------------------
(* The formulas of the three commands                                      *)

\* EPSILON, 1e-9
EPSILON == Rat(1, 1000000000)

\* M_PI, kept exact as the symbol pi
M_PI == Fin(1, 1, 1)

\* gps_distance is a composition of sin, cos, atan2 and sqrt; its value is
\* only printed, never tested, and is kept as an uninterpreted application
gps_distance(lat1, lon1, lat2, lon2) ==
    [fn |-> "gps_distance", args |-> <<lat1, lon1, lat2, lon2>>]

\* distance * 3.28084
Feet(distance) == [fn |-> "mul", args |-> <<distance, Rat(328084, 100000)>>]

\* diameter <= 0
DiameterNotPositive(diameter) == Le(diameter, Num(0))

\* length <= 0
LengthNotPositive(length) == Le(length, Num(0))

Circumference(diameter) == Mul(Mul(Num(2), M_PI), Div(diameter, Num(2)))

AreaSqFeet(diameter, length) ==
    Div(Mul(Circumference(diameter), Mul(length, Num(12))), Num(144))

MaterialNeeded(diameter, length) == Mul(AreaSqFeet(diameter, length), Rat(11, 10))

\* the travel gate as travel == 0
TravelNearZero_ExactZero(travel) == IsZero(travel)

\* fabs(travel) < EPSILON
TravelNearZero(travel) == Lt(Fabs(travel), EPSILON)

TrueOffset(offset, roll) == Hypot(offset, roll)

\* SetOf with the squares added instead of subtracted
SetOf_SquaresAdded(offset, roll, travel) ==
    Div(Add(Add(Mul(travel, travel), Mul(offset, offset)), Mul(roll, roll)),
        Mul(Num(2), travel))

\* SetOf with the divisor travel instead of 2.0 * travel
SetOf_NoFactorTwo(offset, roll, travel) ==
    Div(Sub(Sub(Mul(travel, travel), Mul(offset, offset)), Mul(roll, roll)), travel)

\* (travel * travel - offset * offset - roll * roll) / (2.0 * travel)
SetOf(offset, roll, travel) ==
    Div(Sub(Sub(Mul(travel, travel), Mul(offset, offset)), Mul(roll, roll)),
        Mul(Num(2), travel))

\* DiagonalSquared with the cross term added instead of subtracted
DiagonalSquared_CrossAdded(offset, roll, travel, set) ==
    Add(Add(Add(Mul(travel, travel), Mul(offset, offset)), Mul(roll, roll)),
        Mul(Mul(Num(2), travel), set))

\* travel * travel + offset * offset + roll * roll - 2.0 * travel * set
DiagonalSquared(offset, roll, travel, set) ==
    Sub(Add(Add(Mul(travel, travel), Mul(offset, offset)), Mul(roll, roll)),
        Mul(Mul(Num(2), travel), set))

\* diagonal_squared < 0
DiagonalImaginary(diagonal_squared) == Lt(diagonal_squared, Num(0))

---------------------------------------------------------------------------
(* The process                                                             *)

\* argv[i] and argc with C's indices: argv[0] is the program name
Argv(i) == argv[i + 1]

argc == Len(argv)

\* one printf/fprintf call: the format (without its newline) and its arguments
Line(fmt, args) == [fmt |-> fmt, args |-> args]

print_usage ==
    << Line("Pipe Trades CLI - Field-calibrated pipefitter calculation ecosystem", <<>>),
       Line("Version %s", <<"1.0.0">>),
       Line("Usage: %s <command> [options]", <<Argv(0)>>),
       Line("Commands:", <<>>),
       Line("  gps-verify <lat1> <lon1> <lat2> <lon2>  - Verify GPS coordinates and calculate distance", <<>>),
       Line("  beam-wrap <diameter> <length>             - Estimate beam wrap material needed", <<>>),
       Line("  rolling-offset <offset> <roll> <travel>   - Calculate rolling offset dimensions", <<>>),
       Line("  help                                      - Show this help message", <<>>),
       Line("  version                                   - Show version information", <<>>) >>

print_version ==
    << Line("Pipe Trades CLI version %s", <<"1.0.0">>),
       Line("Built for rope access crews doing fireproofing containment", <<>>) >>

\* the fprintf of parse_double's three failure paths
ParseErrorLine(param_name, str) ==
    Line("Error: Invalid number for %s: '%s'", <<param_name, str>>)

\* exit(code) after writing one line to standard error
Die(line) ==
    /\ err' = Append(err, line)
    /\ status' = 1
    /\ pc' = "exit"
    /\ UNCHANGED <<argv, vals, out>>

HelpCommands == {"help", "--help", "-h"}

VersionCommands == {"version", "--version", "-v"}

\* main, argc < 2
MainNoCommand ==
    /\ pc = "main"
    /\ argc < 2
    /\ out' = out \o print_usage
    /\ status' = 1
    /\ pc' = "exit"
    /\ UNCHANGED <<argv, vals, err>>

MainHelp ==
    /\ pc = "main"
    /\ argc >= 2
    /\ Argv(1) \in HelpCommands
    /\ out' = out \o print_usage
    /\ status' = 0
    /\ pc' = "exit"
    /\ UNCHANGED <<argv, vals, err>>

MainVersion ==
    /\ pc = "main"
    /\ argc >= 2
    /\ Argv(1) \in VersionCommands
    /\ out' = out \o print_version
    /\ status' = 0
    /\ pc' = "exit"
    /\ UNCHANGED <<argv, vals, err>>

\* main calls the command function whose name is argv[1]
MainCall ==
    /\ pc = "main"
    /\ argc >= 2
    /\ Argv(1) \in {"gps-verify", "beam-wrap", "rolling-offset"}
    /\ pc' = (CASE Argv(1) = "gps-verify" -> "cmd_gps_verify"
                [] Argv(1) = "beam-wrap" -> "cmd_beam_wrap"
                [] Argv(1) = "rolling-offset" -> "cmd_rolling_offset")
    /\ UNCHANGED <<argv, vals, out, err, status>>

\* MainUnknown returning 0 after the usage text
MainUnknown_Returns0 ==
    /\ pc = "main"
    /\ argc >= 2
    /\ Argv(1) \notin HelpCommands \cup VersionCommands
                      \cup {"gps-verify", "beam-wrap", "rolling-offset"}
    /\ err' = Append(err, Line("Error: Unknown command '%s'", <<Argv(1)>>))
    /\ out' = out \o print_usage
    /\ status' = 0
    /\ pc' = "exit"
    /\ UNCHANGED <<argv, vals>>

MainUnknown ==
    /\ pc = "main"
    /\ argc >= 2
    /\ Argv(1) \notin HelpCommands \cup VersionCommands
                      \cup {"gps-verify", "beam-wrap", "rolling-offset"}
    /\ err' = Append(err, Line("Error: Unknown command '%s'", <<Argv(1)>>))
    /\ out' = out \o print_usage
    /\ status' = 1
    /\ pc' = "exit"
    /\ UNCHANGED <<argv, vals>>

\* the command function returned: main returns 0
MainReturn ==
    /\ pc = "return"
    /\ status' = 0
    /\ pc' = "exit"
    /\ UNCHANGED <<argv, vals, out, err>>

\* one call  name = parse_double(argv[i], names[..]) : the next local of
\* `names` not yet assigned is parsed from its argument; after the last one
\* control passes to `next`
ParseNext(at, names, next) ==
    /\ pc = at
    /\ LET k == Cardinality(DOMAIN vals) + 1
           str == Argv(k + 1)
           r == ParseDouble(str)
       IN  IF ~r.ok
           THEN Die(ParseErrorLine(names[k], str))
           ELSE /\ vals' = vals @@ (names[k] :> r.value)
                /\ pc' = IF k = Len(names) THEN next ELSE at
                /\ UNCHANGED <<argv, out, err, status>>

---------------------------------------------------------------------------
(* cmd_gps_verify                                                          *)

GpsParams == <<"lat1", "lon1", "lat2", "lon2">>

\* the count check as argc != 6
GpsTooFewArgs_Exactly == argc # 6

\* argc < 6
GpsTooFewArgs == argc < 6

GpsArgc ==
    /\ pc = "cmd_gps_verify"
    /\ IF GpsTooFewArgs
       THEN Die(Line("Error: gps-verify requires 4 coordinates (lat1 lon1 lat2 lon2)", <<>>))
       ELSE /\ pc' = "gps_parse"
            /\ UNCHANGED <<argv, vals, out, err, status>>

GpsParse == ParseNext("gps_parse", GpsParams, "gps_print")

GpsBlock ==
    LET distance == gps_distance(vals["lat1"], vals["lon1"], vals["lat2"], vals["lon2"])
    IN  << Line("GPS Coordinate Verification", <<>>),
           Line("============================", <<>>),
           Line("Point 1: %.6f, %.6f", <<vals["lat1"], vals["lon1"]>>),
           Line("Point 2: %.6f, %.6f", <<vals["lat2"], vals["lon2"]>>),
           Line("Distance: %.2f meters (%.2f feet)", <<distance, Feet(distance)>>) >>

GpsPrint ==
    /\ pc = "gps_print"
    /\ out' = out \o GpsBlock
    /\ pc' = "return"
    /\ UNCHANGED <<argv, vals, err, status>>

---------------------------------------------------------------------------
(* cmd_beam_wrap                                                           *)

BeamParams == <<"diameter", "length">>

\* argc < 4
BeamTooFewArgs == argc < 4

BeamArgc ==
    /\ pc = "cmd_beam_wrap"
    /\ IF BeamTooFewArgs
       THEN Die(Line("Error: beam-wrap requires diameter and length", <<>>))
       ELSE /\ pc' = "beam_parse"
            /\ UNCHANGED <<argv, vals, out, err, status>>

BeamParse == ParseNext("beam_parse", BeamParams, "beam_validate")

\* BeamValidate with the block's title printed before the gates
BeamValidate_TitleFirst ==
    /\ pc = "beam_validate"
    /\ out' = Append(out, Line("Beam Wrap Material Estimation", <<>>))
    /\ IF DiameterNotPositive(vals["diameter"]) \/ LengthNotPositive(vals["length"])
       THEN /\ err' = Append(err, Line("Error: diameter must be positive", <<>>))
            /\ status' = 1
            /\ pc' = "exit"
            /\ UNCHANGED <<argv, vals>>
       ELSE /\ pc' = "beam_print"
            /\ UNCHANGED <<argv, vals, err, status>>

\* BeamValidate with the two gates swapped
BeamValidate_LengthFirst ==
    /\ pc = "beam_validate"
    /\ IF LengthNotPositive(vals["length"])
       THEN Die(Line("Error: length must be positive", <<>>))
       ELSE IF DiameterNotPositive(vals["diameter"])
       THEN Die(Line("Error: diameter must be positive", <<>>))
       ELSE /\ pc' = "beam_print"
            /\ UNCHANGED <<argv, vals, out, err, status>>

\* the two validation gates, in source order
BeamValidate ==
    /\ pc = "beam_validate"
    /\ IF DiameterNotPositive(vals["diameter"])
       THEN Die(Line("Error: diameter must be positive", <<>>))
       ELSE IF LengthNotPositive(vals["length"])
       THEN Die(Line("Error: length must be positive", <<>>))
       ELSE /\ pc' = "beam_print"
            /\ UNCHANGED <<argv, vals, out, err, status>>

BeamBlock ==
    LET diameter == vals["diameter"]
        length == vals["length"]
    IN  << Line("Beam Wrap Material Estimation", <<>>),
           Line("==============================", <<>>),
           Line("Beam diameter: %.2f inches", <<diameter>>),
           Line("Beam length: %.2f feet", <<length>>),
           Line("Circumference: %.2f inches", <<Circumference(diameter)>>),
           Line("Surface area: %.2f sq ft", <<AreaSqFeet(diameter, length)>>),
           Line("Material needed (with 10%% overlap): %.2f sq ft",
                <<MaterialNeeded(diameter, length)>>) >>

BeamPrint ==
    /\ pc = "beam_print"
    /\ out' = out \o BeamBlock
    /\ pc' = "return"
    /\ UNCHANGED <<argv, vals, err, status>>

---------------------------------------------------------------------------
(* cmd_rolling_offset                                                      *)

RollParams == <<"offset", "roll", "travel">>

\* argc < 5
RollTooFewArgs == argc < 5

RollArgc ==
    /\ pc = "cmd_rolling_offset"
    /\ IF RollTooFewArgs
       THEN Die(Line("Error: rolling-offset requires offset, roll, and travel values", <<>>))
       ELSE /\ pc' = "roll_parse"
            /\ UNCHANGED <<argv, vals, out, err, status>>

RollParse == ParseNext("roll_parse", RollParams, "roll_check_travel")

RollCheckTravel ==
    /\ pc = "roll_check_travel"
    /\ IF TravelNearZero(vals["travel"])
       THEN Die(Line("Error: travel cannot be zero or near zero", <<>>))
       ELSE /\ pc' = "roll_compute"
            /\ UNCHANGED <<argv, vals, out, err, status>>

\* true_offset, set and diagonal_squared are computed, then the second gate
RollCompute ==
    /\ pc = "roll_compute"
    /\ LET offset == vals["offset"]
           roll == vals["roll"]
           travel == vals["travel"]
           set == SetOf(offset, roll, travel)
       IN  /\ vals' = vals @@ ("true_offset" :> TrueOffset(offset, roll))
                           @@ ("set" :> set)
                           @@ ("diagonal_squared" :> DiagonalSquared(offset, roll, travel, set))
           /\ pc' = "roll_check_diagonal"
           /\ UNCHANGED <<argv, out, err, status>>

RollCheckDiagonal ==
    /\ pc = "roll_check_diagonal"
    /\ IF DiagonalImaginary(vals["diagonal_squared"])
       THEN Die(Line("Error: Invalid input values - would result in imaginary diagonal", <<>>))
       ELSE /\ pc' = "roll_print"
            /\ UNCHANGED <<argv, vals, out, err, status>>

RollBlock ==
    << Line("Rolling Offset Calculation", <<>>),
       Line("===========================", <<>>),
       Line("Offset: %.2f inches", <<vals["offset"]>>),
       Line("Roll: %.2f inches", <<vals["roll"]>>),
       Line("Travel: %.2f inches", <<vals["travel"]>>),
       Line("True offset: %.2f inches", <<vals["true_offset"]>>),
       Line("Set: %.2f inches", <<vals["set"]>>),
       Line("Diagonal travel: %.2f inches", <<Sqrt(vals["diagonal_squared"])>>) >>

RollPrint ==
    /\ pc = "roll_print"
    /\ out' = out \o RollBlock
    /\ pc' = "return"
    /\ UNCHANGED <<argv, vals, err, status>>

---------------------------------------------------------------------------
(* Command lines.  A numeric argument is a sequence of characters; the     *)
(* command name, which main only compares with strcmp, is a string.        *)

T_0 == <<"0">>   \* "0"

T_3 == <<"3">>   \* "3"

T_4 == <<"4">>   \* "4"

T_7 == <<"7">>   \* "7"

T_10 == <<"1", "0">>   \* "10"

T_12 == <<"1", "2">>   \* "12"

T_20 == <<"2", "0">>   \* "20"

T_m1 == <<"-", "1">>   \* "-1"

T_m2 == <<"-", "2">>   \* "-2"

T_1p5 == <<"1", ".", "5">>   \* "1.5"

T_sp12sp == <<" ", "1", "2", " ">>   \* " 12 "

T_p2e1 == <<"+", "2", "e", "1">>   \* "+2e1"

T_m0p0 == <<"-", "0", ".", "0">>   \* "-0.0"

T_0e5 == <<"0", "e", "5">>   \* "0e5"

T_5em10 == <<"5", "e", "-", "1", "0">>   \* "5e-10"

T_m5em10 == <<"-", "5", "e", "-", "1", "0">>   \* "-5e-10"

T_lat == <<"4", "0", ".", "7", "1", "2", "8">>   \* "40.7128"

T_lon == <<"-", "7", "4", ".", "0", "0", "6", "0">>   \* "-74.0060"

T_nan == <<"n", "a", "n">>   \* "nan"

T_inf == <<"i", "n", "f">>   \* "inf"

T_minf == <<"-", "i", "n", "f">>   \* "-inf"

T_Infinity == <<"I", "n", "f", "i", "n", "i", "t", "y">>   \* "Infinity"

T_empty == <<>>   \* ""

T_space == <<" ">>   \* " "

T_abc == <<"a", "b", "c">>   \* "abc"

T_x == <<"x">>   \* "x"

T_12abc == <<"1", "2", "a", "b", "c">>   \* "12abc"

T_12p3x == <<"1", "2", ".", "3", "x">>   \* "12.3x"

T_minus == <<"-">>   \* "-"

T_dot == <<".">>   \* "."

T_1e309 == <<"1", "e", "3", "0", "9">>   \* "1e309"

T_1em400 == <<"1", "e", "-", "4", "0", "0">>   \* "1e-400"

T_1e == <<"1", "e">>   \* "1e"

T_1sp2 == <<"1", " ", "2">>   \* "1 2"

\* arguments beyond those a command reads, per command line
MaxExtra == 1

ProgName == "pipe-trades"

Commands == HelpCommands \cup VersionCommands
            \cup {"gps-verify", "beam-wrap", "rolling-offset", "frobnicate", ""}

\* how many numeric arguments each command reads
Arity(c) == CASE c = "gps-verify" -> 4
              [] c = "beam-wrap" -> 2
              [] c = "rolling-offset" -> 3
              [] OTHER -> 0

GpsPool == {T_0, T_lat, T_lon, T_12abc, T_empty}

BeamPool == {T_12, T_10, T_0, T_m1, T_1p5, T_sp12sp, T_p2e1, T_m0p0, T_nan, T_inf,
             T_minf, T_Infinity, T_abc, T_12abc, T_12p3x, T_empty, T_space, T_1e309,
             T_minus, T_dot, T_1em400, T_1e, T_1sp2}

OffsetPool == {T_3, T_0, T_m1, T_1p5, T_nan, T_inf, T_12abc, T_empty}

RollPool == {T_4, T_0, T_nan, T_minf, T_12p3x, T_space}

TravelPool == {T_10, T_20, T_0, T_m0p0, T_0e5, T_5em10, T_m5em10, T_m2, T_nan, T_inf,
               T_1e309, T_abc}

ExtraPool == {T_7, T_x}

\* the tokens drawn for argument i of command c
Pool(c, i) ==
    IF i > Arity(c) THEN ExtraPool
    ELSE CASE c = "gps-verify" -> GpsPool
           [] c = "beam-wrap" -> BeamPool
           [] c = "rolling-offset" ->
                (CASE i = 1 -> OffsetPool [] i = 2 -> RollPool [] OTHER -> TravelPool)

\* the argument lists of length k drawn for command c
RECURSIVE ArgLists(_, _)
ArgLists(c, k) ==
    IF k = 0 THEN {<< >>}
    ELSE {Append(l, t) : l \in ArgLists(c, k - 1), t \in Pool(c, k)}

\* the command lines drawn: the program name alone, or a command followed
\* by 0 .. Arity + MaxExtra arguments (argc >= 1 always)
CommandLines ==
    {<<ProgName>>} \cup
    UNION {UNION {{<<ProgName, c>> \o l : l \in ArgLists(c, k)} :
                  k \in 0..(Arity(c) + MaxExtra)} : c \in Commands}

Init ==
    /\ argv \in CommandLines
    /\ pc = "main"
    /\ vals = << >>
    /\ out = << >>
    /\ err = << >>
    /\ status = -1

Next ==
    \/ MainNoCommand
    \/ MainHelp
    \/ MainVersion
    \/ MainCall
    \/ MainUnknown
    \/ MainReturn
    \/ GpsArgc
    \/ GpsParse
    \/ GpsPrint
    \/ BeamArgc
    \/ BeamParse
    \/ BeamValidate
    \/ BeamPrint
    \/ RollArgc
    \/ RollParse
    \/ RollCheckTravel
    \/ RollCompute
    \/ RollCheckDiagonal
    \/ RollPrint

Spec == Init /\ [][Next]_vars

---------------------------------------------------------------------------
(* Vocabulary of the properties.  The two token tables are written down    *)
(* from the C library's definition of strtod, independently of Strtod and  *)
(* ParseDouble above.                                                      *)

CalcCommands == {"gps-verify", "beam-wrap", "rolling-offset"}

IsCmd(c) == argc >= 2 /\ Argv(1) = c

ParamsOf(c) == CASE c = "gps-verify" -> GpsParams
                 [] c = "beam-wrap" -> BeamParams
                 [] c = "rolling-offset" -> RollParams

\* lines and title of a command's result block
ResultLines(c) == CASE c = "gps-verify" -> 5
                    [] c = "beam-wrap" -> 7
                    [] c = "rolling-offset" -> 8

Title(c) == CASE c = "gps-verify" -> "GPS Coordinate Verification"
              [] c = "beam-wrap" -> "Beam Wrap Material Estimation"
              [] c = "rolling-offset" -> "Rolling Offset Calculation"

ArgcErrorLine(c) ==
    CASE c = "gps-verify" ->
           Line("Error: gps-verify requires 4 coordinates (lat1 lon1 lat2 lon2)", <<>>)
      [] c = "beam-wrap" -> Line("Error: beam-wrap requires diameter and length", <<>>)
      [] c = "rolling-offset" ->
           Line("Error: rolling-offset requires offset, roll, and travel values", <<>>)

HasResultBlock(c) == Len(out) = ResultLines(c) /\ out[1].fmt = Title(c)

\* tokens that are a number, optionally between whitespace
WellFormedTokens ==
    {T_0, T_3, T_4, T_7, T_10, T_12, T_20, T_m1, T_m2, T_1p5, T_sp12sp, T_p2e1, T_m0p0,
     T_0e5, T_5em10, T_m5em10, T_lat, T_lon, T_nan, T_inf, T_minf, T_Infinity}

\* empty, whitespace only, no numeric prefix, trailing characters, out of range
MalformedTokens ==
    {T_empty, T_space, T_abc, T_x, T_minus, T_dot, T_12abc, T_12p3x, T_1e, T_1sp2,
     T_1e309, T_1em400}

ExpectedValue(t) ==
    CASE t \in {T_0, T_m0p0, T_0e5} -> Num(0)
      [] t = T_3 -> Num(3)
      [] t = T_4 -> Num(4)
      [] t = T_7 -> Num(7)
      [] t = T_10 -> Num(10)
      [] t \in {T_12, T_sp12sp} -> Num(12)
      [] t \in {T_20, T_p2e1} -> Num(20)
      [] t = T_m1 -> Num(-1)
      [] t = T_m2 -> Num(-2)
      [] t = T_1p5 -> Rat(3, 2)
      [] t = T_5em10 -> Rat(1, 2000000000)
      [] t = T_m5em10 -> Rat(-1, 2000000000)
      [] t = T_lat -> Rat(407128, 10000)
      [] t = T_lon -> Rat(-740060, 10000)
      [] t = T_nan -> NaN
      [] t \in {T_inf, T_Infinity} -> Inf(1)
      [] t = T_minf -> Inf(-1)

\* the numeric arguments command c reads are all present
EnoughArgs(c) == argc >= Arity(c) + 2

\* positions (1-based, among the arguments c reads) holding a malformed token
BadPositions(c) == {i \in 1..Arity(c) : Argv(i + 1) \in MalformedTokens}

FirstBad(c) == CHOOSE i \in BadPositions(c) : \A j \in BadPositions(c) : i <= j

\* the locals parse_double has assigned so far
Parsed(c) == {ParamsOf(c)[i] : i \in 1..Arity(c)} \cap DOMAIN vals

ValidationLines ==
    {Line("Error: diameter must be positive", <<>>),
     Line("Error: length must be positive", <<>>),
     Line("Error: travel cannot be zero or near zero", <<>>),
     Line("Error: Invalid input values - would result in imaginary diagonal", <<>>)}

---------------------------------------------------------------------------
(* C1: all or nothing.  For gps-verify, beam-wrap and rolling-offset and   *)
(* every argument list, standard output is either empty or the command's   *)
(* complete result block; once a result line is written no error is        *)
(* written and the status is not 1; the process ends with status 0 and the *)
(* complete block, or with status 1 and nothing on standard output.        *)
C1_AllOrNothing ==
    \A c \in CalcCommands :
        IsCmd(c) =>
            /\ out = << >> \/ HasResultBlock(c)
            /\ out # << >> => (err = << >> /\ status # 1)
            /\ pc = "exit" => \/ status = 0 /\ HasResultBlock(c) /\ err = << >>
                              \/ status = 1 /\ out = << >> /\ Len(err) = 1

\* a beam-wrap invocation that parsed both arguments, failed a validation
\* and ended with status 1 and no output
C1_Witness ==
    /\ IsCmd("beam-wrap")
    /\ pc = "exit"
    /\ status = 1
    /\ Parsed("beam-wrap") = {"diameter", "length"}
    /\ out = << >>

---------------------------------------------------------------------------
\* rolling-offset 3 4 10 (further arguments, if any, are not read)
IsRoll_3_4_10 ==
    /\ IsCmd("rolling-offset")
    /\ EnoughArgs("rolling-offset")
    /\ Argv(2) = T_3 /\ Argv(3) = T_4 /\ Argv(4) = T_10

(* C2 as stated: rolling-offset 3 4 10 computes trueOffset = 5 and         *)
(* set = 8.75, obtains the squared diagonal -50 and ends with the          *)
(* "imaginary diagonal" error, status 1 and no result block.               *)
C2_AsStated ==
    (IsRoll_3_4_10 /\ pc = "exit") =>
        /\ status = 1
        /\ out = << >>
        /\ err = <<Line("Error: Invalid input values - would result in imaginary diagonal", <<>>)>>
        /\ "set" \in DOMAIN vals
        /\ vals["true_offset"] = Num(5)
        /\ vals["set"] = Rat(35, 4)
        /\ vals["diagonal_squared"] = Num(-50)

(* C2 amended: rolling-offset 3 4 10 computes trueOffset = 5, set = 3.75   *)
(* and the squared diagonal 50, prints its result block (diagonal 7.07)    *)
(* and ends with status 0 and no error.                                    *)
C2_Amended ==
    IsRoll_3_4_10 =>
        /\ "set" \in DOMAIN vals =>
              /\ vals["true_offset"] = Num(5)
              /\ vals["set"] = Rat(15, 4)
              /\ vals["diagonal_squared"] = Num(50)
        /\ pc = "exit" =>
              /\ status = 0
              /\ err = << >>
              /\ "set" \in DOMAIN vals
              /\ HasResultBlock("rolling-offset")
              /\ out[7].args = <<Rat(15, 4)>>
              /\ out[8].args = <<Rat(707, 100)>>

C2_Witness == IsRoll_3_4_10 /\ pc = "exit" /\ status = 0 /\ Len(out) = 8

---------------------------------------------------------------------------
\* the invocation passed the count check and every argument it reads is a
\* well-formed number
CalcAccepted(c) == IsCmd(c) /\ EnoughArgs(c) /\ BadPositions(c) = {}

(* C3: the exit status.  No status is set before the process ends; it ends *)
(* with 0 or 1; it is 0 exactly for help/--help/-h, version/--version/-v   *)
(* and a calculation command with enough arguments, all of them            *)
(* well-formed, on which no validation wrote an error; it is 1 with no     *)
(* command, an unknown command, too few arguments, a malformed token and   *)
(* a validation error.                                                     *)
C3_ExitStatus ==
    /\ pc # "exit" => status = -1
    /\ pc = "exit" =>
          /\ status \in {0, 1}
          /\ status = 0 <=>
                \/ \E c \in HelpCommands \cup VersionCommands : IsCmd(c)
                \/ \E c \in CalcCommands :
                      CalcAccepted(c) /\ \A i \in 1..Len(err) : err[i] \notin ValidationLines
          /\ argc < 2 => status = 1
          /\ (argc >= 2 /\ Argv(1) \notin CalcCommands \cup HelpCommands \cup VersionCommands)
                => status = 1
          /\ \A c \in CalcCommands :
                IsCmd(c) =>
                    /\ ~EnoughArgs(c) => status = 1
                    /\ (EnoughArgs(c) /\ BadPositions(c) # {}) => status = 1
                    /\ (\E i \in 1..Len(err) : err[i] \in ValidationLines) => status = 1

\* an unknown command ended the process with status 1
C3_Witness ==
    /\ IsCmd("frobnicate")
    /\ pc = "exit"
    /\ status = 1
    /\ err = <<Line("Error: Unknown command '%s'", <<"frobnicate">>)>>

---------------------------------------------------------------------------
(* C4 as stated: a gps-verify invocation whose number of arguments after   *)
(* the command name is not 4 produces no distance result.                  *)
C4_AsStated ==
    (IsCmd("gps-verify") /\ argc - 2 # 4) => out = << >>

(* C4 amended: gps-verify requires at least 4 numeric arguments.  With     *)
(* fewer than 4 it ends with status 1, the gps-verify usage error on       *)
(* standard error and no result; with 4 or more it reads the first four    *)
(* only, and prints the distance result exactly when those four are        *)
(* well-formed numbers.                                                    *)
C4_Amended ==
    (IsCmd("gps-verify") /\ pc = "exit") =>
        /\ argc - 2 < 4 =>
              /\ status = 1
              /\ err = <<ArgcErrorLine("gps-verify")>>
              /\ out = << >>
              /\ vals = << >>
        /\ argc - 2 >= 4 =>
              /\ DOMAIN vals \subseteq {"lat1", "lon1", "lat2", "lon2"}
              /\ BadPositions("gps-verify") = {} =>
                    /\ status = 0
                    /\ HasResultBlock("gps-verify")
                    /\ out[3].args = <<ExpectedValue(Argv(2)), ExpectedValue(Argv(3))>>
                    /\ out[4].args = <<ExpectedValue(Argv(4)), ExpectedValue(Argv(5))>>
              /\ BadPositions("gps-verify") # {} => (status = 1 /\ out = << >>)

\* five arguments, the fifth not a number, and the distance is printed
C4_Witness ==
    /\ IsCmd("gps-verify")
    /\ argc - 2 = 5
    /\ Argv(6) = T_x
    /\ pc = "exit"
    /\ status = 0
    /\ HasResultBlock("gps-verify")

---------------------------------------------------------------------------
\* v > 0 (false for NaN)
StrictlyPositive(v) == Lt(Num(0), v)

(* C5 as stated: whenever both beam-wrap tokens are accepted by the        *)
(* parser, a result block is printed only if the parsed diameter and the   *)
(* parsed length are both strictly positive; otherwise the process ends    *)
(* with status 1 and the "must be positive" error naming the first         *)
(* offending field.                                                        *)
C5_AsStated ==
    (CalcAccepted("beam-wrap") /\ pc = "exit") =>
        LET diameter == ExpectedValue(Argv(2))
            length == ExpectedValue(Argv(3))
        IN  /\ out # << >> => (StrictlyPositive(diameter) /\ StrictlyPositive(length))
            /\ ~StrictlyPositive(diameter) =>
                  (status = 1 /\ err = <<Line("Error: diameter must be positive", <<>>)>>)
            /\ (StrictlyPositive(diameter) /\ ~StrictlyPositive(length)) =>
                  (status = 1 /\ err = <<Line("Error: length must be positive", <<>>)>>)

---------------------------------------------------------------------------
(* C6: parse_double returns a value exactly for the well-formed tokens     *)
(* (a number, optionally between whitespace, converted without a range     *)
(* error), and the value is the number written.  An empty or               *)
(* whitespace-only token, one with no numeric prefix, one with trailing    *)
(* characters and one out of range end the process with status 1 and one   *)
(* error line naming the field and the raw token; no value is returned     *)
(* for it and no later argument is parsed.                                 *)
C6_ParseDouble ==
    \A c \in CalcCommands :
        (IsCmd(c) /\ EnoughArgs(c)) =>
            /\ \A i \in 1..Arity(c) :
                  /\ Argv(i + 1) \in WellFormedTokens \cup MalformedTokens
                  /\ ParamsOf(c)[i] \in DOMAIN vals =>
                        /\ Argv(i + 1) \in WellFormedTokens
                        /\ vals[ParamsOf(c)[i]] = ExpectedValue(Argv(i + 1))
            /\ (pc = "exit" /\ BadPositions(c) # {}) =>
                  LET b == FirstBad(c)
                  IN  /\ status = 1
                      /\ err = <<ParseErrorLine(ParamsOf(c)[b], Argv(b + 1))>>
                      /\ DOMAIN vals = {ParamsOf(c)[j] : j \in 1..(b - 1)}
                      /\ out = << >>
            /\ (pc = "exit" /\ BadPositions(c) = {}) =>
                  Parsed(c) = {ParamsOf(c)[j] : j \in 1..Arity(c)}

\* "12.3x" given as the length of beam-wrap is refused
C6_Witness ==
    /\ IsCmd("beam-wrap")
    /\ EnoughArgs("beam-wrap")
    /\ Argv(2) = T_sp12sp
    /\ Argv(3) = T_12p3x
    /\ pc = "exit"
    /\ status = 1
    /\ DOMAIN vals = {"diameter"}
    /\ err = <<ParseErrorLine("length", T_12p3x)>>

---------------------------------------------------------------------------
\* tokens whose value v has |v| < 1e-9
NearZeroTokens == {T_0, T_m0p0, T_0e5, T_5em10, T_m5em10}

(* C7: for every well-formed offset and roll, rolling-offset with a travel *)
(* of zero, or of magnitude below 1e-9, never gets past the travel gate:   *)
(* true offset, set and squared diagonal are never computed, nothing is    *)
(* printed, and the process ends with status 1 and the "travel cannot be   *)
(* zero or near zero" error.                                               *)
C7_ZeroTravel ==
    (CalcAccepted("rolling-offset") /\ Argv(4) \in NearZeroTokens) =>
        /\ pc \notin {"roll_compute", "roll_check_diagonal", "roll_print", "return"}
        /\ DOMAIN vals \cap {"true_offset", "set", "diagonal_squared"} = {}
        /\ out = << >>
        /\ pc = "exit" =>
              /\ status = 1
              /\ err = <<Line("Error: travel cannot be zero or near zero", <<>>)>>
              /\ Parsed("rolling-offset") = {"offset", "roll", "travel"}

\* a non-zero travel below 1e-9 is refused at the gate
C7_Witness ==
    /\ CalcAccepted("rolling-offset")
    /\ Argv(4) = T_5em10
    /\ pc = "exit"
    /\ status = 1
    /\ err = <<Line("Error: travel cannot be zero or near zero", <<>>)>>

---------------------------------------------------------------------------
\* offset, roll and travel are all finite numbers
FiniteInputs == IsFin(vals["offset"]) /\ IsFin(vals["roll"]) /\ IsFin(vals["travel"])

\* (travel^2 - offset^2 - roll^2) / (2*travel) over a common denominator,
\* for finite operands on/od, rn/rd, tn/td with tn # 0
SetClosedForm(on, od, rn, rd, tn, td) ==
    Rat(tn * tn * od * od * rd * rd - on * on * td * td * rd * rd - rn * rn * td * td * od * od,
        2 * tn * td * od * od * rd * rd)

\* travel^2 + offset^2 + roll^2 - 2*travel*(sn/sd) over a common denominator
DiagonalClosedForm(on, od, rn, rd, tn, td, sn, sd) ==
    Rat((tn * tn * od * od * rd * rd + on * on * td * td * rd * rd + rn * rn * td * td * od * od)
            * (td * sd)
          - (2 * tn * sn) * (td * td * od * od * rd * rd),
        (td * td * od * od * rd * rd) * (td * sd))

\* rolling-offset 3 4 20
IsRoll_3_4_20 ==
    /\ IsCmd("rolling-offset")
    /\ EnoughArgs("rolling-offset")
    /\ Argv(2) = T_3 /\ Argv(3) = T_4 /\ Argv(4) \in {T_20, T_p2e1}

(* C8: for every accepted finite offset, roll and non-zero travel,         *)
(* rolling-offset computes set = (travel^2 - offset^2 - roll^2)/(2*travel) *)
(* and diagonalSquared = travel^2 + offset^2 + roll^2 - 2*travel*set; with *)
(* offset 3, roll 4, travel 20 it succeeds with set = 9.375,               *)
(* diagonalSquared = 50 and the diagonal printed as 7.07.                  *)
C8_SetAndDiagonal ==
    (IsCmd("rolling-offset") /\ "set" \in DOMAIN vals) =>
        LET o == vals["offset"]
            r == vals["roll"]
            t == vals["travel"]
            set == vals["set"]
        IN  /\ FiniteInputs =>
                  /\ t.n # 0
                  /\ set = SetClosedForm(o.n, o.d, r.n, r.d, t.n, t.d)
                  /\ vals["diagonal_squared"] =
                         DiagonalClosedForm(o.n, o.d, r.n, r.d, t.n, t.d, set.n, set.d)
            /\ IsRoll_3_4_20 =>
                  /\ set = Rat(9375, 1000)
                  /\ vals["diagonal_squared"] = Num(50)
                  /\ pc = "exit" =>
                        /\ status = 0
                        /\ HasResultBlock("rolling-offset")
                        /\ out[8].args = <<Rat(707, 100)>>

C8_Witness == IsRoll_3_4_20 /\ pc = "exit" /\ status = 0 /\ "set" \in DOMAIN vals

---------------------------------------------------------------------------
\* tokens whose value v has v <= 0
NonPositiveTokens == {T_0, T_m0p0, T_0e5, T_m1, T_m2, T_m5em10, T_minf}

ParsePcs == {"gps_parse", "beam_parse", "roll_parse"}

GatePcs == {"beam_validate", "roll_check_travel", "roll_compute", "roll_check_diagonal"}

PrintPcs == {"gps_print", "beam_print", "roll_print", "return"}

(* C9: the order of the gates in each calculation command.  Nothing is     *)
(* parsed before the argument count is checked, and too few arguments end  *)
(* the process with the count error whatever the tokens supplied.          *)
(* Arguments are parsed left to right and the first malformed one ends the *)
(* process with its parse error, whatever the values before it.  No domain *)
(* validation runs, and no validation error is written, before every       *)
(* argument is parsed.  beam-wrap reports the diameter when diameter and   *)
(* length are both non-positive.                                           *)
C9_GateOrder ==
    \A c \in CalcCommands :
        IsCmd(c) =>
            /\ ~EnoughArgs(c) =>
                  /\ vals = << >>
                  /\ pc \in {"main", "cmd_gps_verify", "cmd_beam_wrap", "cmd_rolling_offset", "exit"}
                  /\ pc = "exit" => err = <<ArgcErrorLine(c)>>
            /\ pc \in ParsePcs =>
                  /\ EnoughArgs(c)
                  /\ \E k \in 0..(Arity(c) - 1) : DOMAIN vals = {ParamsOf(c)[j] : j \in 1..k}
            /\ pc \in GatePcs \cup PrintPcs =>
                  (EnoughArgs(c) /\ BadPositions(c) = {}
                     /\ Parsed(c) = {ParamsOf(c)[j] : j \in 1..Arity(c)})
            /\ (\E i \in 1..Len(err) : err[i] \in ValidationLines) =>
                  Parsed(c) = {ParamsOf(c)[j] : j \in 1..Arity(c)}
            /\ (pc = "exit" /\ EnoughArgs(c) /\ BadPositions(c) # {}) =>
                  /\ err = <<ParseErrorLine(ParamsOf(c)[FirstBad(c)], Argv(FirstBad(c) + 1))>>
                  /\ DOMAIN vals = {ParamsOf(c)[j] : j \in 1..(FirstBad(c) - 1)}
            /\ (c = "beam-wrap" /\ pc = "exit" /\ EnoughArgs(c)
                  /\ Argv(2) \in NonPositiveTokens /\ Argv(3) \in NonPositiveTokens) =>
                  err = <<Line("Error: diameter must be positive", <<>>)>>

\* beam-wrap -1 abc ends with the parse error of the length
C9_Witness ==
    /\ IsCmd("beam-wrap")
    /\ EnoughArgs("beam-wrap")
    /\ Argv(2) = T_m1
    /\ Argv(3) = T_abc
    /\ pc = "exit"
    /\ vals = ("diameter" :> Num(-1))
    /\ err = <<ParseErrorLine("length", T_abc)>>

---------------------------------------------------------------------------
ImaginaryLine == Line("Error: Invalid input values - would result in imaginary diagonal", <<>>)

(* C10: in exact arithmetic the squared diagonal of rolling-offset equals  *)
(* 2*(offset^2 + roll^2) for every finite offset, roll and non-zero        *)
(* travel, whatever the travel, and is never negative; the "imaginary      *)
(* diagonal" error is never written, and every rolling-offset invocation   *)
(* that passes the travel gate ends with its result block and status 0.    *)
C10_DiagonalNeverImaginary ==
    /\ \A i \in 1..Len(err) : err[i] # ImaginaryLine
    /\ IsCmd("rolling-offset") =>
          /\ "diagonal_squared" \in DOMAIN vals =>
                /\ ~DiagonalImaginary(vals["diagonal_squared"])
                /\ FiniteInputs =>
                      LET o == vals["offset"]
                          r == vals["roll"]
                      IN  /\ vals["diagonal_squared"] =
                                 Rat(2 * (o.n * o.n * r.d * r.d + r.n * r.n * o.d * o.d),
                                     o.d * o.d * r.d * r.d)
                          /\ vals["diagonal_squared"].n >= 0
          /\ pc \in {"roll_compute", "roll_check_diagonal", "roll_print", "return"} =>
                (err = << >> /\ status = -1)
          /\ (pc = "exit" /\ "travel" \in DOMAIN vals
                /\ err # <<Line("Error: travel cannot be zero or near zero", <<>>)>>) =>
                (status = 0 /\ err = << >> /\ HasResultBlock("rolling-offset")
                   /\ "diagonal_squared" \in DOMAIN vals)

\* rolling-offset 1.5 4 -2 passes both gates with squared diagonal 73/2
C10_Witness ==
    /\ IsCmd("rolling-offset")
    /\ EnoughArgs("rolling-offset")
    /\ Argv(2) = T_1p5 /\ Argv(3) = T_4 /\ Argv(4) = T_m2
    /\ pc = "exit"
    /\ status = 0
    /\ vals["diagonal_squared"] = Rat(73, 2)

====
